---- MODULE Spec2Model ----
(***************************************************************************)
(* electrobot: a Telegram bot over a sqlite registry of subscribers        *)
(* (tg_users) and an event ledger (events).                                *)
(*                                                                         *)
(*   package database    src/unnamed/part_001  lines  16..182              *)
(*   package main        src/unnamed/part_001  lines 184..252              *)
(*   package telegrambot src/electrobot.go     lines  68..268              *)
(*                                                                         *)
(* The process is modelled as two tasks: main (startup, wait for a signal, *)
(* Close, return) and the handler goroutine launched by telegrambot.New.   *)
(***************************************************************************)
EXTENDS Integers, Sequences, FiniteSets, TLC

VARIABLES
    mainPc,           \* position of main()
    exitCode,         \* process exit code, read once mainPc = "exited"
    dbOpen,           \* Database.sql is an open handle
    tg_users,         \* rows of table tg_users (user_id, username), in rowid order
    events,           \* rows of table events, in id order
    now,              \* wall clock, in seconds
    launchTime,       \* ElectroBot.launchTime
    lastShutdownTime, \* ElectroBot.lastShutdownTime
    shutdownClosed,   \* botApi.StopReceivingUpdates() has been called
    ctxDone,          \* bot.cancelFunc() has been called
    updateChannel,    \* bot.updateChannel: updates received, not yet taken
    tickReady,        \* updateStateTicker.C holds a tick
    handlerPc,        \* position of the goroutine running handler()
    chosen,           \* the case the select was woken for, "none" if it was not
    pending,          \* the reply handleTGMessageCommand has composed, not yet sent
    handled,          \* the update the latest step took from the channel
    dbCalls,          \* storage calls of the latest step, with their results
    sent              \* botApi.Send calls of the latest step, with their results

vars == <<mainPc, exitCode, dbOpen, tg_users, events, now, launchTime,
          lastShutdownTime, shutdownClosed, ctxDone, updateChannel, tickReady,
          handlerPc, chosen, pending, handled, dbCalls, sent>>

(***************************************************************************)
(* Bounds                                                                  *)
(***************************************************************************)
\* Last second the timer fires at; the clock stops there.
MaxTime == 3
\* Updates the library has delivered to the channel and the loop has not taken.
MaxQueue == 1

(***************************************************************************)
(* Inputs                                                                  *)
(***************************************************************************)
\* Telegram users (Message.From); a private chat has the user's ID.
UserIDs == {1, 2}
\* Group chats: Telegram gives them negative IDs, which are no user's ID.
GroupChatIDs == {-1}
ChatIDs == UserIDs \cup GroupChatIDs
UserName(id) == IF id = 1 THEN "u1" ELSE "u2"
MessageIDs == {7, 8}
Texts == {"/start", "/stop", "/lastshutdown", "/help", "/foo", "hi"}

\* botApi.Message: the fields the program reads.
Messages ==
    { [MessageID |-> mid, From |-> [ID |-> u, UserName |-> UserName(u)],
       Chat |-> [ID |-> c], Text |-> t] :
        mid \in MessageIDs, u \in UserIDs, c \in ChatIDs, t \in Texts }

\* A message arrives in the sender's private chat or in the group chat.
InboundMessages == { m \in Messages : m.Chat.ID \in {m.From.ID} \cup GroupChatIDs }

ZeroMessage ==
    [MessageID |-> 0, From |-> [ID |-> 0, UserName |-> ""], Chat |-> [ID |-> 0],
     Text |-> ""]

\* botApi.Update: Message is a pointer, nil when the update carries none.
Updates ==
    { [HasMessage |-> TRUE, Message |-> m] : m \in InboundMessages }
        \cup { [HasMessage |-> FALSE, Message |-> ZeroMessage] }

\* What the channel keeps of an update in flight: the ID of its message, 0
\* when it carries none.  The rest of the update is input that no state
\* depends on before the loop takes it, and is drawn then.  Where at most
\* MaxQueue updates wait, one message ID serves; the second ID arrives in
\* OrderSpec, where the order of two waiting commands is looked at.
Arrivals == {0, 7}
UpdatesOf(arrival) ==
    { update \in Updates :
        IF arrival = 0 THEN ~update.HasMessage
        ELSE update.HasMessage /\ update.Message.MessageID = arrival }

\* Message.Command(): the command without its slash, "" for a non-command.
Command(m) ==
    CASE m.Text = "/start" -> "start"
      [] m.Text = "/stop" -> "stop"
      [] m.Text = "/lastshutdown" -> "lastshutdown"
      [] m.Text = "/help" -> "help"
      [] m.Text = "/foo" -> "foo"
      [] OTHER -> ""

\* A faulty variant of IsCommand, kept for comparison: every text is a command.
IsCommandAlways(m) == TRUE

\* Message.IsCommand(): the text starts with a bot command.
IsCommand(m) == Command(m) /= ""

\* error values of the storage calls
Errors == {"nil", "constraint", "fault", "notfound"}

(***************************************************************************)
(* package database (src/unnamed/part_001).  Every call is one statement;  *)
(* `fault` says whether the statement fails inside sqlite (I/O error, lock *)
(* held past the busy timeout, closed handle).  A call maps the table to   *)
(* its result and the table after it.                                      *)
(***************************************************************************)

\* user_id INTEGER PRIMARY KEY: no second row with the same user_id.
HasUser(table, userID) == \E i \in DOMAIN table : table[i].user_id = userID

\* The table with `row` added; rows are kept in rowid order.
InsertRow(table, row) ==
    SelectSeq(table, LAMBDA r : r.user_id < row.user_id)
        \o <<row>>
        \o SelectSeq(table, LAMBDA r : r.user_id >= row.user_id)

\* A faulty variant of StoreUserInfo, kept for comparison: the table has no primary key.
StoreUserInfoNoKey(table, message, fault) ==
    IF fault THEN [err |-> "fault", tg_users |-> table]
    ELSE [err |-> "nil",
          tg_users |-> InsertRow(table, [user_id |-> message.From.ID,
                                         username |-> message.From.UserName])]

\* Database.StoreUserInfo: INSERT INTO tg_users ... VALUES (message.From.ID, ...)
StoreUserInfo(table, message, fault) ==
    IF fault THEN [err |-> "fault", tg_users |-> table]
    ELSE IF HasUser(table, message.From.ID)
        THEN [err |-> "constraint", tg_users |-> table]
        ELSE [err |-> "nil",
              tg_users |-> InsertRow(table, [user_id |-> message.From.ID,
                                             username |-> message.From.UserName])]

\* Database.GetAllUsers: SELECT user_id FROM tg_users
GetAllUsers(table, fault) ==
    IF fault THEN [err |-> "fault", users |-> <<>>]
    ELSE [err |-> "nil", users |-> [i \in DOMAIN table |-> table[i].user_id]]

\* A faulty variant of UserExists, kept for comparison: a failed query counts
\* as a row found.
UserExistsFaultTrue(table, userID, fault) ==
    IF fault THEN TRUE ELSE HasUser(table, userID)

\* Database.UserExists: SELECT EXISTS(...); a failed query is logged and
\* leaves exists = false.
UserExists(table, userID, fault) ==
    IF fault THEN FALSE ELSE HasUser(table, userID)

\* A faulty variant of RemoveUserInfo, kept for comparison: deleting no row is reported as an error.
RemoveUserInfoStrict(table, userID, fault) ==
    IF fault THEN [err |-> "fault", tg_users |-> table]
    ELSE IF ~HasUser(table, userID)
        THEN [err |-> "notfound", tg_users |-> table]
        ELSE [err |-> "nil",
              tg_users |-> SelectSeq(table, LAMBDA r : r.user_id /= userID)]

\* A faulty variant of RemoveUserInfo, kept for comparison: the WHERE clause is lost.
RemoveUserInfoAll(table, userID, fault) ==
    IF fault THEN [err |-> "fault", tg_users |-> table]
    ELSE [err |-> "nil", tg_users |-> <<>>]

\* Database.RemoveUserInfo: DELETE FROM tg_users WHERE user_id = ?
RemoveUserInfo(table, userID, fault) ==
    IF fault THEN [err |-> "fault", tg_users |-> table]
    ELSE [err |-> "nil",
          tg_users |-> SelectSeq(table, LAMBDA r : r.user_id /= userID)]

(***************************************************************************)
(* The event half of the Storage interface (src/electrobot.go 78..86).     *)
(* Its implementation is not part of the sources at hand: these three are  *)
(* the storage contract of the specification (recordEvent, latestEventTime)*)
(***************************************************************************)

HasEvent(table, eventType) == \E i \in DOMAIN table : table[i].name = eventType

\* Storage.UpdateEvent: update-by-name; zero rows affected is an error.
UpdateEvent(table, eventType, event, clock, fault) ==
    IF fault THEN [err |-> "fault", events |-> table]
    ELSE IF ~HasEvent(table, eventType)
        THEN [err |-> "notfound", events |-> table]
        ELSE [err |-> "nil",
              events |-> [i \in DOMAIN table |->
                            IF table[i].name = eventType
                            THEN [table[i] EXCEPT !.description = event,
                                                  !.created_at = clock]
                            ELSE table[i]]]

\* Storage.NewEvent: insert a row; id is AUTOINCREMENT, created_at the clock.
NewEvent(table, eventType, event, clock, fault) ==
    IF fault THEN [err |-> "fault", events |-> table]
    ELSE [err |-> "nil",
          events |-> Append(table, [id |-> Len(table) + 1, name |-> eventType,
                                    description |-> event, created_at |-> clock])]

\* Storage.GetLatestEventDateTime: the created_at of the latest row of the name.
GetLatestEventDateTime(table, eventType, fault) ==
    IF fault THEN [err |-> "fault", dateTime |-> 0]
    ELSE IF ~HasEvent(table, eventType)
        THEN [err |-> "notfound", dateTime |-> 0]
        ELSE [err |-> "nil",
              dateTime |->
                  CHOOSE t \in { table[i].created_at : i \in DOMAIN table } :
                      \E i \in DOMAIN table :
                          /\ table[i].name = eventType
                          /\ table[i].created_at = t
                          /\ \A j \in DOMAIN table :
                                table[j].name = eventType
                                    => table[j].created_at <= t]

(***************************************************************************)
(* package telegrambot (src/electrobot.go 68..268)                         *)
(***************************************************************************)

\* The event name and description of the heartbeat.
BotIsAlive == "Bot is alive"

\* time.Format("2006-01-02 15:04:05"): the calendar time to the second.
Format(t) == ToString(t)

\* One botApi.Send call: the message and whether the platform took it.
\* botApi.NewMessage leaves ReplyToMessageID 0.
SendCall(chatID, replyTo, text, ok) ==
    [ChatID |-> chatID, ReplyToMessageID |-> replyTo, Text |-> text, ok |-> ok]

\* One storage call as the caller saw it.
DbCall(op, arg, err) == [op |-> op, arg |-> arg, err |-> err]

\* The text of the boot notification.
BootText(launch, lastShutdown) ==
    <<"Bot started at ", Format(launch), "\nLast alive time: ", Format(lastShutdown)>>

\* A faulty variant of notifyAllUsers, kept for comparison: the first failed send ends the pass with its error.
notifyAllUsersAbort(table, launch, lastShutdown, fault, failed) ==
    LET got == GetAllUsers(table, fault)
        firstBad == { i \in DOMAIN got.users : got.users[i] \in failed }
        upTo == IF firstBad = {} THEN Len(got.users)
                ELSE CHOOSE i \in firstBad : \A j \in firstBad : i <= j
    IN  [err |-> IF got.err /= "nil" THEN got.err
                 ELSE IF firstBad /= {} THEN "send" ELSE "nil",
         calls |-> <<DbCall("GetAllUsers", 0, got.err)>>,
         sends |-> [i \in 1..upTo |->
                      SendCall(got.users[i], 0, BootText(launch, lastShutdown),
                               got.users[i] \notin failed)]]

\* ElectroBot.notifyAllUsers; `failed` are the users the platform refuses a
\* message to.  One Send per user of GetAllUsers, its error only logged.
notifyAllUsers(table, launch, lastShutdown, fault, failed) ==
    LET got == GetAllUsers(table, fault)
    IN  [err |-> got.err,
         calls |-> <<DbCall("GetAllUsers", 0, got.err)>>,
         sends |-> [i \in DOMAIN got.users |->
                      SendCall(got.users[i], 0, BootText(launch, lastShutdown),
                               got.users[i] \notin failed)]]

\* ElectroBot.getLastAliveTime
getLastAliveTime(table, fault) == GetLatestEventDateTime(table, BotIsAlive, fault)

\* A faulty variant of recoverLastShutdownTime, kept for comparison: the error is
\* logged and the zero time of the failed call is kept.
recoverLastShutdownTimeZero(latest, clock) == latest.dateTime

\* New, `if bot.lastShutdownTime, err = bot.getLastAliveTime(); err != nil`:
\* the recovered time, time.Now() when the recovery failed.
recoverLastShutdownTime(latest, clock) ==
    IF latest.err /= "nil" THEN clock ELSE latest.dateTime

\* ElectroBot.handleLastShutdownCommand
handleLastShutdownCommand(lastShutdown) ==
    <<"Last shutdown time is ", Format(lastShutdown)>>

\* ElectroBot.handleStartCommand: UserExists(userID), then StoreUserInfo(message).
handleStartCommand(table, userID, messageBody, faultExists, faultStore) ==
    LET exists == UserExists(table, userID, faultExists)
        checked == DbCall("UserExists", userID, IF faultExists THEN "fault" ELSE "nil")
        stored == StoreUserInfo(table, messageBody, faultStore)
    IN  IF exists
        THEN [text |-> <<"You're already registered">>, tg_users |-> table,
              calls |-> <<checked>>]
        ELSE [text |-> IF stored.err /= "nil"
                       THEN <<"Failed to register you. Please try again later">>
                       ELSE <<"You've been successfully registered">>,
              tg_users |-> stored.tg_users,
              calls |-> <<checked,
                          DbCall("StoreUserInfo", messageBody.From.ID, stored.err)>>]

\* A faulty variant of handleStopCommand, kept for comparison: the delete has
\* no WHERE clause.
handleStopCommandAll(table, userID, fault) ==
    LET removed == RemoveUserInfoAll(table, userID, fault)
    IN  [text |-> IF removed.err /= "nil"
                  THEN <<"Failed to unregister you. Please try again later">>
                  ELSE <<"You've been successfully unregistered">>,
         tg_users |-> removed.tg_users,
         calls |-> <<DbCall("RemoveUserInfo", userID, removed.err)>>]

\* ElectroBot.handleStopCommand
handleStopCommand(table, userID, fault) ==
    LET removed == RemoveUserInfo(table, userID, fault)
    IN  [text |-> IF removed.err /= "nil"
                  THEN <<"Failed to unregister you. Please try again later">>
                  ELSE <<"You've been successfully unregistered">>,
         tg_users |-> removed.tg_users,
         calls |-> <<DbCall("RemoveUserInfo", userID, removed.err)>>]

\* ElectroBot.handleHelpCommand
handleHelpCommand ==
    <<"Type /start to get started",
      "\nType /stop to stop receiving notifications",
      "\nType /lastshutdown to get the last shutdown time">>

\* ElectroBot.handleTGMessageCommand up to the Send: the reply and the table.
\* msg.Text starts "" (the empty sequence of pieces); `case "help":` has no
\* statement and Go does not fall through, so it leaves msg.Text as it is.
handleTGMessageCommand(table, lastShutdown, updateMessage, fault1, fault2) ==
    LET cmd == Command(updateMessage)
        started == handleStartCommand(table, updateMessage.Chat.ID, updateMessage,
                                      fault1, fault2)
        stopped == handleStopCommand(table, updateMessage.Chat.ID, fault1)
        same(text) == [text |-> text, tg_users |-> table, calls |-> <<>>]
    IN  CASE cmd = "lastshutdown" -> same(handleLastShutdownCommand(lastShutdown))
          [] cmd = "start" -> started
          [] cmd = "stop" -> stopped
          [] cmd = "help" -> same(<<>>)
          [] OTHER -> same(handleHelpCommand)

\* A faulty variant of updateIsAliveState, kept for comparison: a successful
\* update leaves the row's time as it was.
updateIsAliveStateStale(table, clock, faultUpdate, faultNew) ==
    LET updated == UpdateEvent(table, BotIsAlive, BotIsAlive, clock, faultUpdate)
        inserted == NewEvent(table, BotIsAlive, BotIsAlive, clock, faultNew)
    IN  IF updated.err = "nil"
        THEN [events |-> table,
              calls |-> <<DbCall("UpdateEvent", 0, updated.err)>>]
        ELSE [events |-> inserted.events,
              calls |-> <<DbCall("UpdateEvent", 0, updated.err),
                          DbCall("NewEvent", 0, inserted.err)>>]

\* ElectroBot.updateIsAliveState: UpdateEvent, and NewEvent when it returned
\* an error.
updateIsAliveState(table, clock, faultUpdate, faultNew) ==
    LET updated == UpdateEvent(table, BotIsAlive, BotIsAlive, clock, faultUpdate)
        inserted == NewEvent(table, BotIsAlive, BotIsAlive, clock, faultNew)
    IN  IF updated.err = "nil"
        THEN [events |-> updated.events,
              calls |-> <<DbCall("UpdateEvent", 0, updated.err)>>]
        ELSE [events |-> inserted.events,
              calls |-> <<DbCall("UpdateEvent", 0, updated.err),
                          DbCall("NewEvent", 0, inserted.err)>>]

(***************************************************************************)
(* Initial states: the process starts on the database file an earlier run  *)
(* left behind.  Clock 0 is Go's zero time.Time, the earlier run wrote at  *)
(* clock 1 and this run starts at clock 2.                                 *)
(***************************************************************************)

\* The table an earlier run left with the users of S registered.
RegistryOf(S) ==
    CHOOSE t \in [1..Cardinality(S) ->
                    { [user_id |-> u, username |-> UserName(u)] : u \in S }] :
        \A i, j \in 1..Cardinality(S) : i < j => t[i].user_id < t[j].user_id

\* The events table an earlier run left: no row, or its heartbeat row.
InitialEvents ==
    { <<>>,
      <<[id |-> 1, name |-> BotIsAlive, description |-> BotIsAlive, created_at |-> 1]>> }

Init ==
    /\ mainPc = "start"
    /\ exitCode = 0
    /\ dbOpen = FALSE
    /\ tg_users \in { RegistryOf(S) : S \in SUBSET UserIDs }
    /\ events \in InitialEvents
    /\ now = 2
    /\ launchTime = 0
    /\ lastShutdownTime = 0
    /\ shutdownClosed = FALSE
    /\ ctxDone = FALSE
    /\ updateChannel = <<>>
    /\ tickReady = FALSE
    /\ handlerPc = "none"
    /\ chosen = "none"
    /\ pending = <<>>
    /\ handled = <<>>
    /\ dbCalls = <<>>
    /\ sent = <<>>

\* The handler goroutine is blocked in its select: no case can proceed.  The
\* first case that becomes ready then wakes it, and that is the case it runs.
Parked ==
    /\ handlerPc = "select"
    /\ chosen = "none"
    /\ ~tickReady
    /\ updateChannel = <<>>
    /\ ~ctxDone

\* The select may run case `c`: it was woken for it, or it was not blocked and
\* picks any ready case.
MayRun(c) == handlerPc = "select" /\ chosen \in {"none", c}

\* The process runs: os.Exit has not been called and main has not returned.
Alive == mainPc /= "exited"

\* os.Exit(code), or main returning (code 0): every goroutine ends with it.
Exit(code) ==
    /\ mainPc' = "exited"
    /\ exitCode' = code

(***************************************************************************)
(* main (src/unnamed/part_001 216..252)                                    *)
(***************************************************************************)

\* database.New: MkdirAll, sql.Open, then the two CREATE TABLE IF NOT EXISTS;
\* a failure after the open closes the handle (the deferred db.Close) and
\* main exits with 1.
MainDatabaseNew ==
    /\ mainPc = "start"
    /\ \E result \in {"ok", "mkdir", "open", "create"} :
        IF result = "ok"
        THEN /\ dbOpen' = TRUE
             /\ mainPc' = "getenv"
             /\ UNCHANGED exitCode
        ELSE /\ dbOpen' = FALSE
             /\ Exit(1)
    /\ handled' = <<>>
    /\ dbCalls' = <<>>
    /\ sent' = <<>>
    /\ UNCHANGED <<tg_users, events, now, launchTime, lastShutdownTime,
                   shutdownClosed, ctxDone, updateChannel, tickReady, handlerPc,
                   chosen,
                   pending>>

\* os.Getenv("TELEGRAM_BOT_TOKEN"): an empty token exits with 2.
MainGetenv ==
    /\ mainPc = "getenv"
    /\ \E tokenSet \in BOOLEAN :
        IF tokenSet
        THEN mainPc' = "new" /\ UNCHANGED exitCode
        ELSE Exit(2)
    /\ handled' = <<>>
    /\ dbCalls' = <<>>
    /\ sent' = <<>>
    /\ UNCHANGED <<dbOpen, tg_users, events, now, launchTime, lastShutdownTime,
                   shutdownClosed, ctxDone, updateChannel, tickReady, handlerPc,
                   chosen,
                   pending>>

\* telegrambot.New as main calls it: NewBotAPI, getLastAliveTime (now on an
\* error), notifyAllUsers, then the update channel is opened and the handler
\* goroutine launched.  An error of New exits with 3; otherwise main goes on
\* to daemon.SdNotify (its error only logged) and blocks on <-c.
MainNew ==
    /\ mainPc = "new"
    /\ \E authOk, faultLatest, faultUsers \in BOOLEAN, failed \in SUBSET UserIDs :
        LET latest == getLastAliveTime(events, faultLatest)
            lastAlive == recoverLastShutdownTime(latest, now)
            notified == notifyAllUsers(tg_users, now, lastAlive, faultUsers, failed)
        IN  IF ~authOk
            THEN /\ Exit(3)
                 /\ launchTime' = now
                 /\ dbCalls' = <<>>
                 /\ sent' = <<>>
                 /\ UNCHANGED <<lastShutdownTime, handlerPc>>
            ELSE /\ launchTime' = now
                 /\ lastShutdownTime' = lastAlive
                 /\ dbCalls' = <<DbCall("GetLatestEventDateTime", 0, latest.err)>>
                                   \o notified.calls
                 /\ sent' = notified.sends
                 /\ IF notified.err /= "nil"
                    THEN Exit(3) /\ UNCHANGED handlerPc
                    ELSE /\ mainPc' = "wait"
                         /\ handlerPc' = "start"
                         /\ UNCHANGED exitCode
    /\ UNCHANGED <<dbOpen, tg_users, events, now, shutdownClosed, ctxDone,
                   updateChannel, tickReady, handled,
                   chosen,
                   pending>>

\* A faulty variant of MainSignal, kept for comparison: main lists the
\* subscribers on the signal, while the handler goroutine runs.
MainSignalListing ==
    /\ mainPc = "wait"
    /\ mainPc' = "cancel"
    /\ shutdownClosed' = TRUE
    /\ handled' = <<>>
    /\ dbCalls' = <<DbCall("GetAllUsers", 0, GetAllUsers(tg_users, FALSE).err)>>
    /\ sent' = <<>>
    /\ UNCHANGED <<exitCode, dbOpen, tg_users, events, now, launchTime,
                   lastShutdownTime, ctxDone, updateChannel, tickReady, handlerPc,
                   chosen, pending>>

\* <-c: SIGINT or SIGTERM arrives and main calls bot.Close(), whose first
\* statement is bot.botApi.StopReceivingUpdates().
MainSignal ==
    /\ mainPc = "wait"
    /\ mainPc' = "cancel"
    /\ shutdownClosed' = TRUE
    /\ handled' = <<>>
    /\ dbCalls' = <<>>
    /\ sent' = <<>>
    /\ UNCHANGED <<exitCode, dbOpen, tg_users, events, now, launchTime,
                   lastShutdownTime, ctxDone, updateChannel, tickReady, handlerPc,
                   chosen,
                   pending>>

\* ElectroBot.Close, second statement: bot.cancelFunc()
CloseCancelFunc ==
    /\ mainPc = "cancel"
    /\ mainPc' = "return"
    /\ ctxDone' = TRUE
    /\ chosen' = IF Parked THEN "done" ELSE chosen
    /\ handled' = <<>>
    /\ dbCalls' = <<>>
    /\ sent' = <<>>
    /\ UNCHANGED <<exitCode, dbOpen, tg_users, events, now, launchTime,
                   lastShutdownTime, shutdownClosed, updateChannel, tickReady,
                   handlerPc,
                   pending>>

\* main returns after bot.Close(); nothing closes db.
MainReturn ==
    /\ mainPc = "return"
    /\ Exit(0)
    /\ handled' = <<>>
    /\ dbCalls' = <<>>
    /\ sent' = <<>>
    /\ UNCHANGED <<dbOpen, tg_users, events, now, launchTime, lastShutdownTime,
                   shutdownClosed, ctxDone, updateChannel, tickReady, handlerPc,
                   chosen,
                   pending>>

(***************************************************************************)
(* The environment of the handler goroutine                                *)
(***************************************************************************)

\* The library's receiver (botApi.GetUpdatesChan, opened by New) puts the next
\* update on the channel; it stops once StopReceivingUpdates has been called.
ReceiveFrom(arrivals, capacity) ==
    /\ Alive
    /\ handlerPc \in {"start", "select", "send"}
    /\ ~shutdownClosed
    /\ Len(updateChannel) < capacity
    /\ chosen' = IF Parked THEN "update" ELSE chosen
    /\ \E arrival \in arrivals : updateChannel' = Append(updateChannel, arrival)
    /\ handled' = <<>>
    /\ dbCalls' = <<>>
    /\ sent' = <<>>
    /\ UNCHANGED <<mainPc, exitCode, dbOpen, tg_users, events, now, launchTime,
                   lastShutdownTime, shutdownClosed, ctxDone, tickReady, handlerPc,
                   pending>>

Receive == ReceiveFrom(Arrivals, MaxQueue)

\* The receiver when commands come in a burst: two messages, told apart by
\* their IDs, may wait on the channel together.
ReceiveBurst == ReceiveFrom(MessageIDs, MaxQueue + 1)

\* updateStateTicker fires: a second passes and the ticker's channel (of
\* capacity one) holds a tick.
TimerFire ==
    /\ Alive
    /\ handlerPc \in {"select", "send"}
    /\ now < MaxTime
    /\ now' = now + 1
    /\ tickReady' = TRUE
    /\ chosen' = IF Parked THEN "tick" ELSE chosen
    /\ handled' = <<>>
    /\ dbCalls' = <<>>
    /\ sent' = <<>>
    /\ UNCHANGED <<mainPc, exitCode, dbOpen, tg_users, events, launchTime,
                   lastShutdownTime, shutdownClosed, ctxDone, updateChannel,
                   handlerPc,
                   pending>>

(***************************************************************************)
(* handler (src/electrobot.go 226..254): one action per case of the        *)
(* select, and one for the Send a command ends with (a network call during *)
(* which main and the environment go on)                                   *)
(***************************************************************************)

\* The storage calls of one liveness record.
RecordAlive ==
    \E faultUpdate, faultNew \in BOOLEAN :
        LET alive == updateIsAliveState(events, now, faultUpdate, faultNew)
        IN  /\ events' = alive.events
            /\ dbCalls' = alive.calls

\* handler before the loop: updateIsAliveState(), then the ticker is created.
HandlerStart ==
    /\ Alive
    /\ handlerPc = "start"
    /\ handlerPc' = "select"
    /\ RecordAlive
    /\ handled' = <<>>
    /\ sent' = <<>>
    /\ UNCHANGED <<mainPc, exitCode, dbOpen, tg_users, now, launchTime,
                   lastShutdownTime, shutdownClosed, ctxDone, updateChannel,
                   tickReady,
                   chosen,
                   pending>>

\* A faulty variant of HandleTick, kept for comparison: the tick also moves
\* lastShutdownTime to the time of the record.
HandleTickRefreshing ==
    /\ Alive
    /\ MayRun("tick")
    /\ tickReady
    /\ chosen' = "none"
    /\ tickReady' = FALSE
    /\ RecordAlive
    /\ lastShutdownTime' = now
    /\ handled' = <<>>
    /\ sent' = <<>>
    /\ UNCHANGED <<mainPc, exitCode, dbOpen, tg_users, now, launchTime,
                   shutdownClosed, ctxDone, updateChannel, handlerPc, pending>>

\* case <-updateStateTicker.C
HandleTick ==
    /\ Alive
    /\ MayRun("tick")
    /\ tickReady
    /\ chosen' = "none"
    /\ tickReady' = FALSE
    /\ RecordAlive
    /\ handled' = <<>>
    /\ sent' = <<>>
    /\ UNCHANGED <<mainPc, exitCode, dbOpen, tg_users, now, launchTime,
                   lastShutdownTime, shutdownClosed, ctxDone, updateChannel,
                   handlerPc,
                   pending>>

\* Whether the n-th storage call of a command can fail: start makes up to two
\* calls, stop one, the other commands none.
FaultsOf(message, n) ==
    IF \/ Command(message) = "start"
       \/ Command(message) = "stop" /\ n = 1
    THEN BOOLEAN ELSE {FALSE}

\* The message botApi.NewMessage(Chat.ID, "") makes, with its reply mark and text.
NewMessage(chatID, replyTo, text) ==
    [ChatID |-> chatID, ReplyToMessageID |-> replyTo, Text |-> text]

\* case update := <-bot.updateChannel: an update without a message or with a
\* message that is no command is dropped; a command is dispatched, up to the
\* point where handleTGMessageCommand has its reply ready to send.
HandleUpdate ==
    /\ Alive
    /\ MayRun("update")
    /\ updateChannel /= <<>>
    /\ chosen' = "none"
    /\ updateChannel' = Tail(updateChannel)
    /\ sent' = <<>>
    /\ \E update \in UpdatesOf(Head(updateChannel)) :
        /\ handled' = <<update>>
        /\ IF ~update.HasMessage \/ ~IsCommand(update.Message)
           THEN /\ dbCalls' = <<>>
                /\ UNCHANGED <<tg_users, pending, handlerPc>>
           ELSE \E fault1 \in FaultsOf(update.Message, 1),
                   fault2 \in FaultsOf(update.Message, 2) :
                   LET reply == handleTGMessageCommand(tg_users, lastShutdownTime,
                                       update.Message, fault1, fault2)
                   IN  /\ tg_users' = reply.tg_users
                       /\ dbCalls' = reply.calls
                       /\ pending' = <<NewMessage(update.Message.Chat.ID,
                                                  update.Message.MessageID,
                                                  reply.text)>>
                       /\ handlerPc' = "send"
    /\ UNCHANGED <<mainPc, exitCode, dbOpen, events, now, launchTime,
                   lastShutdownTime, shutdownClosed, ctxDone, tickReady>>

\* A faulty variant of HandleSend, kept for comparison: a failed Send is fatal
\* to the loop.
HandleSendFatal ==
    /\ Alive
    /\ handlerPc = "send"
    /\ \E sendOk \in BOOLEAN :
          /\ sent' = <<SendCall(pending[1].ChatID, pending[1].ReplyToMessageID,
                                pending[1].Text, sendOk)>>
          /\ handlerPc' = IF sendOk THEN "select" ELSE "exited"
    /\ pending' = <<>>
    /\ handled' = <<>>
    /\ dbCalls' = <<>>
    /\ UNCHANGED <<mainPc, exitCode, dbOpen, tg_users, events, now, launchTime,
                   lastShutdownTime, shutdownClosed, ctxDone, updateChannel,
                   tickReady, chosen>>

\* handleTGMessageCommand, `if _, err := bot.botApi.Send(msg)`: the reply goes
\* to the platform, a failed Send is only logged, and the loop is back at its
\* select.
HandleSend ==
    /\ Alive
    /\ handlerPc = "send"
    /\ handlerPc' = "select"
    /\ \E sendOk \in BOOLEAN :
          sent' = <<SendCall(pending[1].ChatID, pending[1].ReplyToMessageID,
                             pending[1].Text, sendOk)>>
    /\ pending' = <<>>
    /\ handled' = <<>>
    /\ dbCalls' = <<>>
    /\ UNCHANGED <<mainPc, exitCode, dbOpen, tg_users, events, now, launchTime,
                   lastShutdownTime, shutdownClosed, ctxDone, updateChannel,
                   tickReady, chosen>>

\* A faulty variant of HandleCancel, kept for comparison: the case logs and the loop goes on.
HandleCancelStay ==
    /\ Alive
    /\ MayRun("done")
    /\ ctxDone
    /\ handled' = <<>>
    /\ dbCalls' = <<>>
    /\ sent' = <<>>
    /\ UNCHANGED <<mainPc, exitCode, dbOpen, tg_users, events, now, launchTime,
                   lastShutdownTime, shutdownClosed, ctxDone, updateChannel,
                   tickReady, handlerPc,
                   chosen,
                   pending>>

\* A faulty variant of HandleCancel, kept for comparison: the cancellation is
\* looked at inside the command too, and drops the reply.
HandleCancelAnywhere ==
    /\ Alive
    /\ handlerPc \in {"select", "send"}
    /\ chosen \in {"none", "done"}
    /\ ctxDone
    /\ chosen' = "none"
    /\ handlerPc' = "exited"
    /\ pending' = <<>>
    /\ handled' = <<>>
    /\ dbCalls' = <<>>
    /\ sent' = <<>>
    /\ UNCHANGED <<mainPc, exitCode, dbOpen, tg_users, events, now, launchTime,
                   lastShutdownTime, shutdownClosed, ctxDone, updateChannel,
                   tickReady>>

\* case <-ctx.Done(): return (the deferred updateStateTicker.Stop() runs).
HandleCancel ==
    /\ Alive
    /\ MayRun("done")
    /\ ctxDone
    /\ chosen' = "none"
    /\ handlerPc' = "exited"
    /\ handled' = <<>>
    /\ dbCalls' = <<>>
    /\ sent' = <<>>
    /\ UNCHANGED <<mainPc, exitCode, dbOpen, tg_users, events, now, launchTime,
                   lastShutdownTime, shutdownClosed, ctxDone, updateChannel,
                   tickReady,
                   pending>>

Next ==
    \/ MainDatabaseNew
    \/ MainGetenv
    \/ MainNew
    \/ MainSignal
    \/ CloseCancelFunc
    \/ MainReturn
    \/ Receive
    \/ TimerFire
    \/ HandlerStart
    \/ HandleTick
    \/ HandleUpdate
    \/ HandleSend
    \/ HandleCancel

Spec == Init /\ [][Next]_vars

\* The scheduler runs a runnable goroutine in the end (the handler once
\* launched, and once woken for a case), and Go's select picks among its ready
\* cases uniformly at random, so a case that stays ready is taken in the end.
FairSpec ==
    /\ Spec
    /\ WF_vars(HandlerStart)
    /\ WF_vars(HandleTick)
    /\ WF_vars(HandleUpdate)
    /\ WF_vars(HandleSend)
    /\ WF_vars(HandleCancel)

\* The process on a fresh database file, with commands arriving in bursts.
InitFresh == Init /\ tg_users = <<>> /\ events = <<>>

NextBurst ==
    \/ MainDatabaseNew
    \/ MainGetenv
    \/ MainNew
    \/ MainSignal
    \/ CloseCancelFunc
    \/ MainReturn
    \/ ReceiveBurst
    \/ TimerFire
    \/ HandlerStart
    \/ HandleTick
    \/ HandleUpdate
    \/ HandleSend
    \/ HandleCancel

OrderSpec == InitFresh /\ [][NextBurst]_vars

TypeOK ==
    /\ mainPc \in {"start", "getenv", "new", "wait", "cancel", "return", "exited"}
    /\ exitCode \in 0..3
    /\ dbOpen \in BOOLEAN
    /\ now \in 2..MaxTime
    /\ Len(updateChannel) <= MaxQueue
    /\ handlerPc \in {"none", "start", "select", "send", "exited"}
    /\ handlerPc = "send" <=> pending /= <<>>
    /\ \A i \in DOMAIN pending : pending[i].ChatID \in ChatIDs
    /\ chosen \in {"none", "tick", "update", "done"}
    /\ \A i \in DOMAIN dbCalls : dbCalls[i].err \in Errors
    /\ \A i \in DOMAIN sent : sent[i].ChatID \in ChatIDs
    /\ handled = <<>> \/ handled[1] \in Updates

(***************************************************************************)
(* What the latest step did, read from handled, dbCalls and sent           *)
(***************************************************************************)

\* The latest step took a command message from the channel and has its reply
\* ready in `pending`.
TookCommand == handled /= <<>> /\ handled[1].HasMessage /\ IsCommand(handled[1].Message)

\* The latest step took the command `cmd`.
Took(cmd) == TookCommand /\ Command(handled[1].Message) = cmd

\* No statement of the latest step failed inside sqlite.
NoFault == \A i \in DOMAIN dbCalls : dbCalls[i].err /= "fault"

\* Every storage call of the latest step returned without an error.
StorageOk == \A i \in DOMAIN dbCalls : dbCalls[i].err = "nil"

\* The identities GetAllUsers lists.
Listed(table) ==
    LET got == GetAllUsers(table, FALSE)
    IN  { got.users[i] : i \in DOMAIN got.users }

\* The rows of the identity in the table.
RowsOf(table, userID) == { i \in DOMAIN table : table[i].user_id = userID }

\* Every identity but userID is in both tables or in neither.
SameOthers(before, after, userID) ==
    \A u \in ChatIDs \ {userID} : HasUser(after, u) <=> HasUser(before, u)

\* The heartbeat rows of the events table.
HeartbeatRows == { i \in DOMAIN events : events[i].name = BotIsAlive }

(***************************************************************************)
(* Claims                                                                  *)
(***************************************************************************)

\* C1: a start from a sender the registry does not hold adds exactly one row,
\* the sender's, and is answered "You've been successfully registered"; a
\* start from a sender the registry holds (a second start with no stop in
\* between) adds no row and is answered "You're already registered" -- for
\* every sender and every chat, when no statement fails inside sqlite.
C1_StartRegistersOnce ==
    [][ (Took("start") /\ NoFault)' =>
            LET sender == handled'[1].Message.From.ID
            IN  IF HasUser(tg_users, sender)
                THEN /\ tg_users' = tg_users
                     /\ pending'[1].Text = <<"You're already registered">>
                ELSE /\ Len(tg_users') = Len(tg_users) + 1
                     /\ Cardinality(RowsOf(tg_users', sender)) = 1
                     /\ SameOthers(tg_users, tg_users', sender)
                     /\ pending'[1].Text = <<"You've been successfully registered">>
      ]_vars

\* C2: a sender is in the registry iff the latest of its start/stop commands
\* was a start: a start or stop whose storage calls succeeded leaves the sender
\* registered exactly when it was a start, and no other step changes whether
\* the sender is registered.
C2_RegisteredIffLastStart ==
    [][ \A sender \in UserIDs :
            IF /\ (Took("start") \/ Took("stop"))'
               /\ handled'[1].Message.From.ID = sender
            THEN StorageOk' => (HasUser(tg_users', sender) <=> Took("start")')
            ELSE HasUser(tg_users', sender) <=> HasUser(tg_users, sender)
      ]_vars

\* C3: help and every unrecognized command are answered with the usage message
\* that lists start, stop and lastshutdown, and no command is answered with an
\* empty text.
C3_HelpAnswersUsage ==
    TookCommand =>
        /\ pending[1].Text /= <<>>
        /\ Command(handled[1].Message) \notin {"start", "stop", "lastshutdown"}
            => pending[1].Text = <<"Type /start to get started",
                                "\nType /stop to stop receiving notifications",
                                "\nType /lastshutdown to get the last shutdown time">>

\* C4 as claimed: once the cancellation signal is out and the loop is in its
\* select, the loop performs no storage write, even when a tick or an update
\* is ready with the signal (the select was woken for it, or finds it ready
\* together with the signal).
C4_NoWriteAfterCancel ==
    [][ (ctxDone /\ handlerPc = "select") =>
            (tg_users' = tg_users /\ events' = events) ]_vars

\* C4 as amended: once the cancellation signal is out, the loop exits in the
\* end (or ends with the process, when main returns first); it writes nothing
\* once the signal has woken it from a select in which no case was ready, nor
\* once it has taken the cancellation case, and then it stays exited.  A tick
\* or an update that is ready with the signal may be handled before that.
C4_LoopExitsAfterCancel ==
    /\ ctxDone ~> (handlerPc = "exited" \/ ~Alive)
    /\ [][ (chosen = "done" \/ handlerPc = "exited") =>
             /\ tg_users' = tg_users
             /\ events' = events
             /\ handlerPc' = "exited" \/ (handlerPc' = handlerPc /\ chosen' = chosen)
         ]_vars

\* The loop has taken the cancellation case while the process still runs, an
\* update it never took left on the channel.
C4_LoopExited ==
    /\ ctxDone
    /\ handlerPc = "exited"
    /\ updateChannel /= <<>>
    /\ Alive

\* C5: after a termination request the process stops receiving updates, then
\* cancels the loop, then closes the database, and does not exit with the
\* database handle open.
C5_OrderlyShutdown ==
    /\ ctxDone => shutdownClosed
    /\ (shutdownClosed /\ ~dbOpen) => ctxDone
    /\ (shutdownClosed /\ ~Alive) => (ctxDone /\ ~dbOpen)

\* The latest step was telegrambot.New getting past NewBotAPI.
BootStep == dbCalls /= <<>> /\ dbCalls[1].op = "GetLatestEventDateTime"

\* C6: when GetAllUsers succeeds, startup attempts exactly one boot
\* notification to each listed subscriber whichever sends fail, and the
\* construction succeeds: the handler is launched and main goes on to wait.
C6_BootNotifiesEveryone ==
    (BootStep /\ dbCalls[2].err = "nil") =>
        /\ \A u \in Listed(tg_users) :
              Cardinality({ i \in DOMAIN sent : sent[i].ChatID = u }) = 1
        /\ Len(sent) = Cardinality(Listed(tg_users))
        /\ \A i \in DOMAIN sent :
              sent[i].Text = BootText(launchTime, lastShutdownTime)
        /\ mainPc = "wait"
        /\ handlerPc = "start"

\* Two subscribers, the send to the first failed, the second was attempted
\* and succeeded.
C6_FirstSendFailed ==
    /\ BootStep
    /\ Len(sent) = 2
    /\ ~sent[1].ok
    /\ sent[2].ok
    /\ handlerPc = "start"

\* C7: the store never holds more than one heartbeat row.
C7_OneHeartbeatRow == Cardinality(HeartbeatRows) <= 1

\* C8: a successful StoreUserInfo leaves its identity existing and listed, a
\* successful RemoveUserInfo leaves its identity neither, and both leave every
\* other identity as it was.
C8_RegistryRoundTrip ==
    [][ \A i \in DOMAIN dbCalls' :
            LET call == dbCalls'[i]
            IN  /\ (call.op = "StoreUserInfo" /\ call.err = "nil") =>
                      /\ UserExists(tg_users', call.arg, FALSE)
                      /\ call.arg \in Listed(tg_users')
                      /\ SameOthers(tg_users, tg_users', call.arg)
                /\ (call.op = "RemoveUserInfo" /\ call.err = "nil") =>
                      /\ ~UserExists(tg_users', call.arg, FALSE)
                      /\ call.arg \notin Listed(tg_users')
                      /\ SameOthers(tg_users, tg_users', call.arg)
      ]_vars

\* A stop removed user 1 and user 2 is still registered.
C8_RemovedOne ==
    /\ Took("stop")
    /\ dbCalls = <<DbCall("RemoveUserInfo", 1, "nil")>>
    /\ Listed(tg_users) = {2}

\* C9: when no statement fails inside sqlite, RemoveUserInfo of an identity
\* that is not registered returns no error and leaves the registry as it was,
\* a stop from a sender that is not registered is answered "You've been
\* successfully unregistered", and a second stop in the same chat would leave
\* the registry as the first left it.
C9_StopIdempotent ==
    [][ (Took("stop") /\ NoFault)' =>
            LET message == handled'[1].Message
                call == dbCalls'[1]
            IN  /\ ~HasUser(tg_users, call.arg) =>
                      (call.err = "nil" /\ tg_users' = tg_users)
                /\ ~HasUser(tg_users, message.From.ID) =>
                      pending'[1].Text = <<"You've been successfully unregistered">>
                /\ handleStopCommand(tg_users', message.Chat.ID, FALSE).tg_users
                      = tg_users'
      ]_vars

\* A stop from sender 1, who is not registered, was answered with the success
\* reply (it came in the group chat, so it removed no row of the sender).
C9_StopOfUnregistered ==
    /\ Took("stop")
    /\ handled[1].Message.From.ID = 1
    /\ handled[1].Message.Chat.ID = -1
    /\ ~HasUser(tg_users, 1)
    /\ pending[1].Text = <<"You've been successfully unregistered">>

\* No two rows of the registry have the same user_id.
UniqueIdentity ==
    \A i, j \in DOMAIN tg_users :
        tg_users[i].user_id = tg_users[j].user_id => i = j

\* C10: StoreUserInfo for an identity already present returns the constraint
\* error and leaves the registry as it was, and the registry never holds two
\* rows of one identity.
C10_IdentityUnique ==
    /\ []UniqueIdentity
    /\ [][ \A i \in DOMAIN dbCalls' :
              LET call == dbCalls'[i]
              IN  (/\ call.op = "StoreUserInfo"
                   /\ call.err /= "fault"
                   /\ HasUser(tg_users, call.arg)) =>
                      (call.err = "constraint" /\ tg_users' = tg_users)
         ]_vars

\* StoreUserInfo was called for a registered identity and was refused.
C10_InsertRefused ==
    /\ Took("start")
    /\ \E i \in DOMAIN dbCalls :
          /\ dbCalls[i].op = "StoreUserInfo"
          /\ dbCalls[i].err = "constraint"
          /\ HasUser(tg_users, dbCalls[i].arg)

\* C11: the process exits with 1 exactly when database.New fails, with 2
\* exactly when the token is empty, with 3 exactly when NewBotAPI fails; once
\* New is past NewBotAPI no failure (of GetLatestEventDateTime, GetAllUsers or
\* a Send) ends the startup: the handler is launched and main goes on to wait.
C11_ExitCodes ==
    [][ /\ (mainPc /= "exited" /\ mainPc' = "exited") =>
              /\ exitCode' = 1 <=> mainPc = "start"
              /\ exitCode' = 2 <=> mainPc = "getenv"
              /\ exitCode' = 3 <=> (mainPc = "new" /\ ~BootStep')
        /\ (mainPc = "new" /\ BootStep') => (mainPc' = "wait" /\ handlerPc' = "start")
      ]_vars

\* C12: when GetLatestEventDateTime fails at startup (a storage fault, or no
\* heartbeat row), New does not fail for it: lastShutdownTime is the current
\* time and, the listing of subscribers succeeding, the handler is launched
\* and main waits; lastShutdownTime is not assigned after New, and every
\* lastshutdown reply carries it.
C12_LastAliveBestEffort ==
    /\ [](BootStep /\ dbCalls[1].err /= "nil" =>
            /\ lastShutdownTime = now
            /\ dbCalls[2].err = "nil" => (mainPc = "wait" /\ handlerPc = "start"))
    /\ [][mainPc /= "new" => lastShutdownTime' = lastShutdownTime]_vars
    /\ [](Took("lastshutdown") =>
            pending[1].Text = <<"Last shutdown time is ", Format(lastShutdownTime)>>)

\* A lastshutdown command was answered with the time this run started at (2):
\* no earlier run wrote at it, so it is the substituted time.
C12_RepliedSubstitute ==
    /\ Took("lastshutdown")
    /\ lastShutdownTime = launchTime
    /\ pending[1].Text = <<"Last shutdown time is ", "2">>

\* The latest step recorded the heartbeat: its UpdateEvent or its NewEvent
\* returned without an error.
Recorded ==
    \E i \in DOMAIN dbCalls :
        dbCalls[i].op \in {"UpdateEvent", "NewEvent"} /\ dbCalls[i].err = "nil"

C14_OneAtATimeInOrder ==
    [][ /\ handled' /= <<>> =>
              /\ handlerPc = "select"
              /\ updateChannel /= <<>>
              /\ handled'[1] \in UpdatesOf(Head(updateChannel))
              /\ updateChannel' = Tail(updateChannel)
        /\ handlerPc = "send" =>
              /\ tg_users' = tg_users
              /\ events' = events
              /\ \/ updateChannel' = updateChannel
                 \/ \E arrival \in MessageIDs :
                       updateChannel' = Append(updateChannel, arrival)
              /\ \/ handlerPc' = "send" /\ pending' = pending /\ sent' = <<>>
                 \/ /\ handlerPc' = "select"
                    /\ Len(sent') = 1
                    /\ NewMessage(sent'[1].ChatID, sent'[1].ReplyToMessageID,
                                  sent'[1].Text) = pending[1]
        /\ sent' /= <<>> => (handlerPc = "send" \/ mainPc = "new")
      ]_vars

\* The reply of command 7 is not sent yet, command 8 waits behind it, and the
\* cancellation was signalled after the loop took command 7 (no tick fired and
\* the receiver had stopped before, so the step that cleared `handled` was
\* main's).
C14_CancelledMidCommand ==
    /\ handlerPc = "send"
    /\ pending[1].ReplyToMessageID = 7
    /\ updateChannel = <<8>>
    /\ ctxDone
    /\ mainPc = "return"
    /\ handled = <<>>
    /\ now = launchTime

\* C15: storage has one caller at a time.  A step that calls storage (or opens
\* or closes the handle) is main's while the handler goroutine is not launched,
\* or the handler's, with main taking no part in it; the goroutine is launched
\* only when the calls of the construction are over, and main calls storage
\* no more after that.
C15_SingleStorageCaller ==
    /\ [](handlerPc /= "none" => mainPc \notin {"start", "getenv", "new"})
    /\ [][ (dbCalls' /= <<>> \/ dbOpen' /= dbOpen) =>
              \/ /\ mainPc \in {"start", "new"}
                 /\ mainPc' /= mainPc
                 /\ handlerPc = "none"
              \/ /\ handlerPc \in {"start", "select"}
                 /\ mainPc' = mainPc
                 /\ dbOpen' = dbOpen
         ]_vars

\* The handler called storage while main was inside bot.Close().
C15_LoopCallsDuringClose ==
    /\ dbCalls /= <<>>
    /\ mainPc = "cancel"
    /\ handlerPc \in {"select", "send"}

\* The step is the handler's and something in it failed: a storage call
\* returned an error or failed inside, or the Send of a reply was refused.
HandlerStepFailed ==
    /\ handlerPc \in {"start", "select", "send"}
    /\ mainPc' = mainPc
    /\ \/ \E i \in DOMAIN dbCalls' : dbCalls'[i].err /= "nil"
       \/ \E i \in DOMAIN sent' : ~sent'[i].ok

\* The loop outlives every failure: after a failed step the handler is in its
\* loop, the reply composed is the reply sent, and the loop ends by the
\* cancellation case only.
LoopSurvives ==
    /\ HandlerStepFailed => handlerPc' \in {"select", "send"}
    /\ (handlerPc = "send" /\ handlerPc' /= "send") =>
          (handlerPc' = "select" /\ sent'[1].Text = pending[1].Text)
    /\ (handlerPc /= "exited" /\ handlerPc' = "exited") =>
          (ctxDone /\ handlerPc = "select")

\* C16 as claimed: after any storage error during start or stop (the failed
\* existence check of start included) the reply is the failure reply of the
\* command, and no failure stops the loop.
C16_AnyErrorFailureReply ==
    [][ /\ (Took("start") /\ ~StorageOk)' =>
              pending'[1].Text = <<"Failed to register you. Please try again later">>
        /\ (Took("stop") /\ ~StorageOk)' =>
              pending'[1].Text = <<"Failed to unregister you. Please try again later">>
        /\ LoopSurvives
      ]_vars

\* C16 as amended: after an error returned by StoreUserInfo (start) or by
\* RemoveUserInfo (stop) the reply is the failure reply of the command; a
\* failure inside UserExists is not such an error (the reply then follows the
\* insert); and no failure stops the loop.
C16_FailuresNeverStopLoop ==
    [][ /\ (Took("start") /\ \E i \in DOMAIN dbCalls :
                                dbCalls[i].op = "StoreUserInfo" /\ dbCalls[i].err /= "nil")' =>
              pending'[1].Text = <<"Failed to register you. Please try again later">>
        /\ (Took("stop") /\ dbCalls[1].err /= "nil")' =>
              pending'[1].Text = <<"Failed to unregister you. Please try again later">>
        /\ LoopSurvives
      ]_vars

\* The failure reply of a start was refused by the platform, and the loop is
\* back at its select.
C16_FailedSendSurvived ==
    /\ sent = <<SendCall(1, 7, <<"Failed to register you. Please try again later">>,
                         FALSE)>>
    /\ handlerPc = "select"
    /\ Alive

\* C17: UserExists returns false when its query fails, whatever the table
\* holds; a start handled during such a failure is not answered "You're
\* already registered": StoreUserInfo is attempted, the reply is the success
\* reply when it returned no error and the failure reply otherwise, and the
\* registry holds at most one row of the sender afterwards.
C17_ExistsFaultIsFalse ==
    /\ [](\A u \in ChatIDs : ~UserExists(tg_users, u, TRUE))
    /\ [][ (Took("start") /\ dbCalls[1].err = "fault")' =>
              /\ dbCalls'[1].op = "UserExists"
              /\ pending'[1].Text /= <<"You're already registered">>
              /\ Len(dbCalls') = 2
              /\ dbCalls'[2].op = "StoreUserInfo"
              /\ pending'[1].Text =
                    IF dbCalls'[2].err = "nil"
                    THEN <<"You've been successfully registered">>
                    ELSE <<"Failed to register you. Please try again later">>
              /\ Cardinality(RowsOf(tg_users', handled'[1].Message.From.ID)) <= 1
              /\ dbCalls'[2].err /= "nil" => tg_users' = tg_users
         ]_vars

\* A registered sender's start in its private chat: the existence check
\* failed, the insert ran into the primary key, the reply is the failure reply.
C17_FaultThenConstraint ==
    /\ Took("start")
    /\ handled[1].Message.Chat.ID = handled[1].Message.From.ID
    /\ dbCalls = <<DbCall("UserExists", handled[1].Message.From.ID, "fault"),
                   DbCall("StoreUserInfo", handled[1].Message.From.ID, "constraint")>>
    /\ pending[1].Text = <<"Failed to register you. Please try again later">>
    /\ Cardinality(RowsOf(tg_users, handled[1].Message.From.ID)) = 1

\* New reads the last-alive time while the handler is not launched and writes
\* no event; nothing assigns lastShutdownTime after New; every lastshutdown
\* reply carries it.
LastAliveReadOnceAndKept ==
    /\ [][mainPc = "new" => (handlerPc = "none" /\ events' = events)]_vars
    /\ [][mainPc /= "new" => lastShutdownTime' = lastShutdownTime]_vars
    /\ [](Took("lastshutdown") =>
            pending[1].Text = <<"Last shutdown time is ", Format(lastShutdownTime)>>)

C19_OneThreadedReply ==
    [][ /\ handled' /= <<>> =>
              LET update == handled'[1]
              IN  IF update.HasMessage /\ Command(update.Message) /= ""
                  THEN /\ Len(pending') = 1
                       /\ pending'[1].ChatID = update.Message.Chat.ID
                       /\ pending'[1].ReplyToMessageID = update.Message.MessageID
                       /\ handlerPc' = "send"
                       /\ sent' = <<>>
                  ELSE /\ pending' = <<>>
                       /\ sent' = <<>>
                       /\ dbCalls' = <<>>
                       /\ handlerPc' = "select"
        /\ (handlerPc = "send" /\ handlerPc' /= "send") =>
              /\ Len(sent') = 1
              /\ NewMessage(sent'[1].ChatID, sent'[1].ReplyToMessageID, sent'[1].Text)
                    = pending[1]
              /\ pending' = <<>>
        /\ (sent' /= <<>> /\ mainPc /= "new") => handlerPc = "send"
        /\ pending' /= pending => (handled' /= <<>> \/ handlerPc = "send")
      ]_vars

\* The reply to a command that came in the group chat went to the group chat,
\* as a reply to message 7.
C19_GroupReplySent ==
    /\ Len(sent) = 1
    /\ sent[1].ChatID = -1
    /\ sent[1].ReplyToMessageID = 7
    /\ sent[1].ok
    /\ handlerPc = "select"

\* Every row of `before` is a row of `after`.
RowsKept(before, after) ==
    \A i \in DOMAIN before : \E j \in DOMAIN after : after[j] = before[i]

\* C20: the registry changes by a start, which adds one row and keeps the
\* others, or by a stop, which removes one row and adds none, and by nothing
\* else (not by a tick, an update without a message, a text that is no
\* command, lastshutdown, help or an unrecognized command); no step that takes
\* an update changes the events table, which changes only in the record at
\* loop start and in the tick case, and those leave the registry as it is.
C20_FrameConditions ==
    [][ /\ tg_users' /= tg_users =>
              \/ /\ Took("start")'
                 /\ Len(tg_users') = Len(tg_users) + 1
                 /\ RowsKept(tg_users, tg_users')
              \/ /\ Took("stop")'
                 /\ Len(tg_users') = Len(tg_users) - 1
                 /\ RowsKept(tg_users', tg_users)
        /\ handled' /= <<>> => events' = events
        /\ events' /= events =>
              /\ handlerPc = "start" \/ (handlerPc = "select" /\ tickReady /\ ~tickReady')
              /\ Recorded'
              /\ tg_users' = tg_users
      ]_vars

\* A start added the row of a second subscriber; the first is still there.
C20_StartAddedSecondRow ==
    /\ Took("start")
    /\ Len(dbCalls) = 2
    /\ dbCalls[2] = DbCall("StoreUserInfo", handled[1].Message.From.ID, "nil")
    /\ Len(tg_users) = 2

====
